---- MODULE Spec2Model ----
(***************************************************************************)
(* Model of the AI scheduling assistant (ai_scheduler):                    *)
(*   - MeetingScheduler  (agents/meeting_scheduler.py): time-hint          *)
(*     resolver, slot search, schedule_meeting, response assembly;         *)
(*   - GoogleCalendarManager (agents/calendar_manager.py): get_events,     *)
(*     mock events, find_available_slots;                                  *)
(*   - SchedulerAgent (agents/scheduler_agent.py): the workflow.           *)
(*                                                                         *)
(* Time is counted in minutes.  Minute 0 is Monday 2025-07-21 00:00, the   *)
(* Monday of the week that holds the mock calendar's Thursday 2025-07-24.  *)
(* A datetime is a record [wall, tz]: the wall-clock reading in minutes    *)
(* and the zone it is read in ("utc", "ist", or "naive" for a datetime     *)
(* without tzinfo).  A Python dict is a record, None is the record None.   *)
(***************************************************************************)
EXTENDS Integers, Sequences, FiniteSets

VARIABLES
    now,        \* the wall clock: datetime.now(timezone.utc), in minutes
    request,    \* the request payload handed to the entry point
    calendar,   \* calendar backend: user -> sequence of raw API items
    services,   \* GoogleCalendarManager.services: users holding a session
    down,       \* users whose calendar API call raises
    pc,         \* position of the request in its pipeline
    window,     \* (time_min, time_max) resolved for the request
    events,     \* busy events fetched per participant
    selected,   \* the slot chosen by the slot search, or None
    response,   \* what the entry point returned
    history,    \* the responses of the earlier runs of the request
    data        \* SchedulerAgent: the dict handed from one workflow node to the next

vars == <<now, request, calendar, services, down, pc, window, events, selected, response, history, data>>

----------------------------------------------------------------------------
(* Bounds of the model *)

\* number of consecutive days the clock reading is drawn from
NowDays == 7
\* largest number of vocabulary tokens in one hint text
MaxHintTokens == 2
\* number of times one request is submitted
MaxRuns == 2

----------------------------------------------------------------------------
(* datetime, timedelta, timezone *)

None == [none |-> TRUE]

\* None where an e-mail address is expected
NoEmail == "<None>"

HOUR == 60
DAY == 24 * HOUR
WEEK == 7 * DAY

\* timezone(timedelta(hours=5, minutes=30))
IST_OFFSET == 5 * HOUR + 30

Offset(tz) == IF tz = "ist" THEN IST_OFFSET ELSE 0

datetime(wall, tz) == [wall |-> wall, tz |-> tz]

\* the absolute instant (UTC minutes) of an aware datetime
Instant(dt) == dt.wall - Offset(dt.tz)

IsAware(dt) == dt.tz # "naive"

astimezone(dt, tz) == datetime(Instant(dt) + Offset(tz), tz)

\* dt + timedelta(minutes=m)
plus(dt, m) == datetime(dt.wall + m, dt.tz)

\* dt.replace(hour=h, minute=m, second=0, microsecond=0)
replace_hm(dt, h, m) == datetime((dt.wall \div DAY) * DAY + h * HOUR + m, dt.tz)

\* dt.weekday(): Monday is 0
weekday(dt) == (dt.wall \div DAY) % 7

hour_of(dt) == (dt.wall % DAY) \div HOUR

minute_of(dt) == dt.wall % HOUR

----------------------------------------------------------------------------
(* Hint texts.  The resolver only asks whether a pattern occurs in the     *)
(* lower-cased text, so a text is the set of vocabulary tokens it holds,   *)
(* each in the case it was typed in.  A text without tokens stands for the *)
(* empty string.                                                           *)

DayNames == <<"monday", "tuesday", "wednesday", "thursday", "friday", "saturday", "sunday">>

LowerTokens == {DayNames[i] : i \in 1..7} \cup {"thurs", "next week", "this week"}

UpperTokens == {"Thursday", "NEXT WEEK", "This Week"}

\* str.lower() on one token
LowerToken(tok) ==
    CASE tok = "Thursday" -> "thursday"
      [] tok = "NEXT WEEK" -> "next week"
      [] tok = "This Week" -> "this week"
      [] OTHER -> tok

\* a lower() that leaves the text as typed
lower_AsTyped(text) == text

\* text.lower()
lower(text) == [text EXCEPT !.tokens = {LowerToken(t) : t \in text.tokens}]

\* pat in tok, for the patterns the resolver looks for
SubstringOf(pat, tok) == pat = tok \/ (pat = "thurs" /\ tok = "thursday")

\* pat in text
Contains(text, pat) == \E tok \in text.tokens : SubstringOf(pat, tok)

str(tokens) == [kind |-> "str", tokens |-> tokens]

\* bool(text)
Truthy(text) == text.kind = "str" /\ text.tokens # {}

----------------------------------------------------------------------------
(* MeetingScheduler._parse_time_constraints *)

\* the window of one named day: 10:00 to 17:00 IST, returned in UTC
\* DayWindow without the roll-over of a day that is today, past 17:00
DayWindow_NoRoll(now_ist, day_num) ==
    LET days_ahead == (day_num - weekday(now_ist)) % 7
        next_day == plus(now_ist, days_ahead * DAY)
    IN  <<astimezone(replace_hm(next_day, 10, 0), "utc"),
          astimezone(replace_hm(next_day, 17, 0), "utc")>>

DayWindow(now_ist, day_num) ==
    LET ahead == (day_num - weekday(now_ist)) % 7
        days_ahead == IF ahead = 0 /\ hour_of(now_ist) >= 17 THEN 7 ELSE ahead
        next_day == plus(now_ist, days_ahead * DAY)
    IN  <<astimezone(replace_hm(next_day, 10, 0), "utc"),
          astimezone(replace_hm(next_day, 17, 0), "utc")>>

\* the first day of the days dict, in its insertion order, that the text names
FirstNamedDay(text) ==
    LET named == {i \in 1..7 : Contains(lower(text), DayNames[i])}
    IN  IF named = {} THEN 0 ELSE CHOOSE i \in named : \A j \in named : i <= j

\* NextWeekWindow without the roll-over of a Monday to the Monday after
NextWeekWindow_NoRoll(now_ist) ==
    LET days_ahead == (0 - weekday(now_ist)) % 7
        next_monday == plus(now_ist, days_ahead * DAY)
    IN  <<astimezone(replace_hm(next_monday, 10, 0), "utc"),
          astimezone(replace_hm(plus(next_monday, 4 * DAY), 17, 0), "utc")>>

NextWeekWindow(now_ist) ==
    LET ahead == (0 - weekday(now_ist)) % 7
        days_ahead == IF ahead = 0 THEN 7 ELSE ahead
        next_monday == plus(now_ist, days_ahead * DAY)
    IN  <<astimezone(replace_hm(next_monday, 10, 0), "utc"),
          astimezone(replace_hm(plus(next_monday, 4 * DAY), 17, 0), "utc")>>

ThisWeekWindow(now_ist) ==
    LET time_min_ist == IF hour_of(now_ist) >= 17
                        THEN replace_hm(plus(now_ist, DAY), 10, 0)
                        ELSE replace_hm(now_ist, hour_of(now_ist), 0)
        days_ahead == (4 - weekday(now_ist)) % 7
    IN  IF days_ahead = 0 /\ hour_of(now_ist) >= 17
        THEN <<astimezone(replace_hm(plus(now_ist, 3 * DAY), 10, 0), "utc"),
               astimezone(replace_hm(plus(now_ist, 7 * DAY), 17, 0), "utc")>>
        ELSE <<astimezone(time_min_ist, "utc"),
               astimezone(replace_hm(now_ist, 17, 0), "utc")>>

\* returns [raised, time_min, time_max]; raised when .lower() is called on a
\* value that is not a string
_parse_time_constraints(time_constraints, now_utc) ==
    LET now_ist == astimezone(now_utc, "ist")
        ok(w) == [raised |-> FALSE, time_min |-> w[1], time_max |-> w[2]]
    IN  IF Truthy(time_constraints)
           /\ (Contains(lower(time_constraints), "thursday")
               \/ Contains(lower(time_constraints), "thurs"))
        THEN ok(DayWindow(now_ist, 3))
        ELSE IF time_constraints.kind # "str"
        THEN [raised |-> TRUE, time_min |-> None, time_max |-> None]
        ELSE IF FirstNamedDay(time_constraints) # 0
        THEN ok(DayWindow(now_ist, FirstNamedDay(time_constraints) - 1))
        ELSE IF Contains(lower(time_constraints), "next week")
        THEN ok(NextWeekWindow(now_ist))
        ELSE IF Contains(lower(time_constraints), "this week")
        THEN ok(ThisWeekWindow(now_ist))
        ELSE ok(<<now_utc, plus(now_utc, 7 * DAY)>>)

----------------------------------------------------------------------------
(* Strings that carry a time.  isoformat() writes the wall-clock reading   *)
(* followed by the zone's offset; parsing reads the reading and the suffix *)
(* back.  A date string carries the day only.                              *)

EmptyString == [fmt |-> ""]

Suffix(tz) == CASE tz = "ist" -> "+05:30" [] tz = "utc" -> "+00:00" [] OTHER -> ""

\* dt.isoformat()
isoformat(dt) == [fmt |-> "T", wall |-> dt.wall, suffix |-> Suffix(dt.tz)]

\* a date string YYYY-MM-DD
datestr(day) == [fmt |-> "date", wall |-> day * DAY, suffix |-> ""]

\* the string with a trailing Z replaced by +00:00
replace_Z(s) == IF s.suffix = "Z" THEN [s EXCEPT !.suffix = "+00:00"] ELSE s

\* datetime.fromisoformat(s), for a string without a trailing Z
fromisoformat(s) ==
    datetime(s.wall, CASE s.suffix = "+05:30" -> "ist"
                       [] s.suffix = "+00:00" -> "utc"
                       [] OTHER -> "naive")

\* dict.get(key, default)
Get(d, key, default) == IF key \in DOMAIN d THEN d[key] ELSE default

\* d.get(k1, {}).get(k2)
Get2(d, k1, k2) == IF k1 \in DOMAIN d THEN Get(d[k1], k2, None) ELSE None

\* Python's `a or b` on values that are None or a non-empty string
Or(a, b) == IF a = None THEN b ELSE a

----------------------------------------------------------------------------
(* The calendar backend and GoogleCalendarManager.get_events *)

U1 == "userone.amd@gmail.com"
U2 == "usertwo.amd@gmail.com"
U3 == "userthree.amd@gmail.com"

Users == {U1, U2, U3}

\* a timed item as the calendar API returns it
TimedItem(start, end, summary) ==
    [start |-> [dateTime |-> isoformat(start)],
     end |-> [dateTime |-> isoformat(end)],
     summary |-> summary]

\* an all-day item covering the days first .. last
AllDayItem(first, last, summary) ==
    [start |-> [date |-> datestr(first)],
     end |-> [date |-> datestr(last + 1)],
     summary |-> summary]

\* the instant the backend files a time string under
ApiInstant(s) == IF s.fmt = "date" THEN s.wall ELSE Instant(fromisoformat(replace_Z(s)))

ItemStart(item) == ApiInstant(Or(Get(item.start, "dateTime", None), Get(item.start, "date", None)))
ItemEnd(item) == ApiInstant(Or(Get(item.end, "dateTime", None), Get(item.end, "date", None)))

\* the event dict get_events builds from one API item (its attendee fields
\* are left out of the model)
FlatEvent(item) ==
    [StartTime |-> Get(item.start, "dateTime", Get(item.start, "date", None)),
     EndTime |-> Get(item.end, "dateTime", Get(item.end, "date", None)),
     Summary |-> Get(item, "summary", "No Title")]

\* Thursday 2025-07-24 is day 3 of the model's first week
MockThursday == 3

MockEvent(h1, m1, h2, m2, summary) ==
    [StartTime |-> isoformat(datetime(MockThursday * DAY + h1 * HOUR + m1, "ist")),
     EndTime |-> isoformat(datetime(MockThursday * DAY + h2 * HOUR + m2, "ist")),
     Summary |-> summary]

_get_mock_events(user_email) ==
    CASE user_email = U1 ->
            <<MockEvent(10, 30, 11, 0, "Agentic AI Project Status Update")>>
      [] user_email = U2 ->
            <<MockEvent(10, 0, 10, 30, "Team Meet"),
              MockEvent(10, 30, 11, 0, "Agentic AI Project Status Update")>>
      [] user_email = U3 ->
            <<MockEvent(10, 0, 10, 30, "Team Meet"),
              MockEvent(13, 0, 14, 0, "Lunch with Customers"),
              MockEvent(10, 30, 11, 0, "Agentic AI Project Status Update")>>
      [] OTHER ->
            <<MockEvent(9, 0, 9, 30, "Daily Standup")>>

\* a naive datetime is read as UTC
AsUTC(dt) == IF dt.tz = "naive" THEN datetime(dt.wall, "utc") ELSE dt

\* service.events().list(timeMin, timeMax, singleEvents, orderBy=startTime):
\* the items of the user's calendar that overlap the queried range, in start
\* order (the calendar is kept in start order)
ApiList(cal, user_email, time_min, time_max) ==
    LET tmin == Instant(AsUTC(time_min))
        tmax0 == Instant(AsUTC(time_max))
        tmax == IF tmax0 <= tmin THEN tmin + HOUR ELSE tmax0
    IN  SelectSeq(cal[user_email],
                  LAMBDA item : ItemEnd(item) > tmin /\ ItemStart(item) < tmax)

\* get_events never raises: a user without a usable session, or a failing
\* API call, yields the mock events.
get_events(cal, user_email, time_min, time_max) ==
    IF user_email \in down
    THEN _get_mock_events(user_email)
    ELSE LET items == ApiList(cal, user_email, time_min, time_max)
         IN  [i \in 1..Len(items) |-> FlatEvent(items[i])]

\* the session registry after get_events(user_email): a session is created
\* on first use unless creating it fails
ServicesAfter(svc, user_email) ==
    IF user_email \in svc \/ user_email \in down THEN svc ELSE svc \cup {user_email}

----------------------------------------------------------------------------
(* MeetingScheduler._find_available_slot *)

\* minutes between two candidate starts
SLOT_STEP == 30

_parse_datetime(dt_str) ==
    IF dt_str = None THEN None
    ELSE IF dt_str.fmt = "T" /\ dt_str.suffix # ""
    THEN fromisoformat(replace_Z(dt_str))
    ELSE datetime(dt_str.wall, "utc")

\* _is_time_in_event with the bounds compared by <= and >=, so that an event
\* that only touches the slot counts as overlapping it
_is_time_in_event_Touching(start_time, end_time, event) ==
    LET event_start == _parse_datetime(Or(Get2(event, "start", "dateTime"),
                                          Get2(event, "start", "date")))
        event_end == _parse_datetime(Or(Get2(event, "end", "dateTime"),
                                        Get2(event, "end", "date")))
    IN  IF event_start = None \/ event_end = None
        THEN FALSE
        ELSE Instant(start_time) <= Instant(event_end)
             /\ Instant(end_time) >= Instant(event_start)

_is_time_in_event(start_time, end_time, event) ==
    LET event_start == _parse_datetime(Or(Get2(event, "start", "dateTime"),
                                          Get2(event, "start", "date")))
        event_end == _parse_datetime(Or(Get2(event, "end", "dateTime"),
                                        Get2(event, "end", "date")))
    IN  IF event_start = None \/ event_end = None
        THEN FALSE
        ELSE Instant(start_time) < Instant(event_end)
             /\ Instant(end_time) > Instant(event_start)

AnyEvent(evs, start_time, end_time) ==
    \E i \in 1..Len(evs) : _is_time_in_event(start_time, end_time, evs[i])

\* the candidate set back to 10:00 of its own day once the hour reaches 17
NextCandidate_SameDay(current_time) ==
    LET stepped == plus(current_time, SLOT_STEP)
    IN  IF hour_of(stepped) >= 17
        THEN datetime((stepped.wall \div DAY) * DAY + 10 * HOUR, stepped.tz)
        ELSE stepped

\* the candidate after current_time: 30 minutes on, or 10:00 of the next day
\* once the hour reaches 17
NextCandidate(current_time) ==
    LET stepped == plus(current_time, SLOT_STEP)
    IN  IF hour_of(stepped) >= 17
        THEN datetime((plus(stepped, DAY).wall \div DAY) * DAY + 10 * HOUR, stepped.tz)
        ELSE stepped

RECURSIVE ScanSlots(_, _, _, _, _)
ScanSlots(current_time, requester_events, attendee_events, time_max, duration) ==
    IF ~(Instant(current_time) + duration <= Instant(time_max))
    THEN None
    ELSE LET slot_end == plus(current_time, duration)
             requester_available == ~AnyEvent(requester_events, current_time, slot_end)
             all_attendees_available ==
                 \A email \in DOMAIN attendee_events :
                     ~AnyEvent(attendee_events[email], current_time, slot_end)
         IN  IF requester_available /\ all_attendees_available
             THEN [start_time |-> isoformat(current_time),
                   end_time |-> isoformat(slot_end)]
             ELSE ScanSlots(NextCandidate(current_time), requester_events,
                            attendee_events, time_max, duration)

_find_available_slot(requester_events, attendee_events, time_min, time_max, duration_minutes) ==
    ScanSlots(time_min, requester_events, attendee_events, time_max, duration_minutes)

----------------------------------------------------------------------------
(* MeetingScheduler.schedule_meeting and _create_response *)

Range(seq) == {seq[i] : i \in 1..Len(seq)}

\* datetime.now(): the server's local clock without tzinfo (the server runs
\* in UTC)
LocalNow(now_utc) == datetime(now_utc.wall, "naive")

\* str(duration_mins)
StrOfInt(n) == [digits |-> n]

\* _create_response with the new meeting put in front of the existing events
_create_response_SlotFirst(request_data, selected_slot, attendees, duration_mins, cal, svc, now_utc) ==
    LET event_start == IF selected_slot # None THEN selected_slot.start_time ELSE EmptyString
        event_end == IF selected_slot # None THEN selected_slot.end_time ELSE EmptyString
        scheduled_event == [StartTime |-> event_start,
                            EndTime |-> event_end,
                            Summary |-> Get(request_data, "Subject", "Meeting")]
        existing(email) ==
            IF email \in svc
            THEN get_events(cal, email, LocalNow(now_utc), plus(LocalNow(now_utc), 7 * DAY))
            ELSE <<>>
        entry(email) ==
            [email |-> email,
             events |-> IF selected_slot # None
                        THEN <<scheduled_event>> \o existing(email)
                        ELSE existing(email)]
        requester_email == Get(request_data, "From", NoEmail)
        attendee_data ==
            [i \in 1..Len(attendees) |-> entry(attendees[i])]
            \o (IF requester_email # NoEmail /\ requester_email \notin Range(attendees)
                THEN <<entry(requester_email)>>
                ELSE <<>>)
        added == {"Attendees", "EventStart", "EventEnd", "Duration_mins", "MetaData"}
    IN  [k \in DOMAIN request_data \cup added |->
            CASE k = "Attendees" -> attendee_data
              [] k = "EventStart" -> event_start
              [] k = "EventEnd" -> event_end
              [] k = "Duration_mins" -> StrOfInt(duration_mins)
              [] k = "MetaData" -> <<>>
              [] OTHER -> request_data[k]]

_create_response(request_data, selected_slot, attendees, duration_mins, cal, svc, now_utc) ==
    LET event_start == IF selected_slot # None THEN selected_slot.start_time ELSE EmptyString
        event_end == IF selected_slot # None THEN selected_slot.end_time ELSE EmptyString
        scheduled_event == [StartTime |-> event_start,
                            EndTime |-> event_end,
                            Summary |-> Get(request_data, "Subject", "Meeting")]
        existing(email) ==
            IF email \in svc
            THEN get_events(cal, email, LocalNow(now_utc), plus(LocalNow(now_utc), 7 * DAY))
            ELSE <<>>
        entry(email) ==
            [email |-> email,
             events |-> IF selected_slot # None
                        THEN Append(existing(email), scheduled_event)
                        ELSE existing(email)]
        requester_email == Get(request_data, "From", NoEmail)
        attendee_data ==
            [i \in 1..Len(attendees) |-> entry(attendees[i])]
            \o (IF requester_email # NoEmail /\ requester_email \notin Range(attendees)
                THEN <<entry(requester_email)>>
                ELSE <<>>)
        added == {"Attendees", "EventStart", "EventEnd", "Duration_mins", "MetaData"}
    IN  [k \in DOMAIN request_data \cup added |->
            CASE k = "Attendees" -> attendee_data
              [] k = "EventStart" -> event_start
              [] k = "EventEnd" -> event_end
              [] k = "Duration_mins" -> StrOfInt(duration_mins)
              [] k = "MetaData" -> <<>>
              [] OTHER -> request_data[k]]

\* the duration read from the e-mail text
TextDuration(email_content) ==
    IF Contains(lower(email_content), "30 minutes") THEN 30
    ELSE IF Contains(lower(email_content), "1 hour")
            \/ Contains(lower(email_content), "60 minutes") THEN 60
    ELSE 30

\* the participants of a request: the listed attendees, then the sender
\* unless listed
AttendeesOf(request_data) ==
    LET listed == [i \in 1..Len(Get(request_data, "Attendees", <<>>)) |->
                       request_data.Attendees[i].email]
        sender_email == Get(request_data, "From", NoEmail)
    IN  IF sender_email # NoEmail /\ sender_email \notin Range(listed)
        THEN Append(listed, sender_email)
        ELSE listed

\* the text the window is resolved from
TimeConstraintsOf(request_data) ==
    LET given == Get(request_data, "TimeConstraints", str({}))
    IN  IF ~Truthy(given) /\ "EmailContent" \in DOMAIN request_data
        THEN request_data.EmailContent
        ELSE given

\* schedule_meeting returns the response; the record also reports the
\* window, the fetched events, the slot the search chose and the session
\* registry it leaves behind
schedule_meeting(request_data, now_utc, cal, svc) ==
    LET duration_mins == TextDuration(Get(request_data, "EmailContent", str({})))
        attendees == AttendeesOf(request_data)
        sender_email == Get(request_data, "From", NoEmail)
        w == _parse_time_constraints(TimeConstraintsOf(request_data), now_utc)
    IN  IF w.raised
        THEN [response |-> request_data, window |-> w, events |-> None,
              selected |-> None, services |-> svc]
        ELSE
        LET requester_events == get_events(cal, sender_email, w.time_min, w.time_max)
            others == Range(attendees) \ {sender_email}
            attendee_events ==
                [a \in others |-> get_events(cal, a, w.time_min, w.time_max)]
            svc2 == (svc \cup Range(attendees)) \ (down \ svc)
            selected_slot == _find_available_slot(requester_events, attendee_events,
                                                  w.time_min, w.time_max, duration_mins)
            fetched == [requester |-> requester_events, attendees |-> attendee_events]
        IN  IF selected_slot = None
            THEN [response |-> _create_response(request_data, None, attendees,
                                                duration_mins, cal, svc2, now_utc),
                  window |-> w, events |-> fetched, selected |-> None, services |-> svc2]
            ELSE
            LET start_ist == astimezone(fromisoformat(selected_slot.start_time), "ist")
                end_ist == astimezone(fromisoformat(selected_slot.end_time), "ist")
                shown == [start_time |-> isoformat(start_ist),
                          end_time |-> isoformat(end_ist)]
            IN  [response |-> _create_response(request_data, shown, attendees,
                                               duration_mins, cal, svc2, now_utc),
                 window |-> w, events |-> fetched, selected |-> selected_slot,
                 services |-> svc2]

----------------------------------------------------------------------------
(* GoogleCalendarManager.find_available_slots (the definition the class    *)
(* keeps: the second one)                                                  *)

\* Python compares two datetimes only when both or neither carry tzinfo
Comparable(a, b) == IsAware(a) = IsAware(b)

\* what two comparable datetimes are ordered by
OrderKey(dt) == IF IsAware(dt) THEN Instant(dt) ELSE dt.wall

\* datetime.utcnow(): the UTC reading without tzinfo
utcnow(now_utc) == datetime(now_utc.wall, "naive")

\* the events of an attendee as find_available_slots gathers them
AttendeeEvents(cal, svc, attendee, time_min, time_max) ==
    IF attendee \in svc
    THEN get_events(cal, attendee, time_min, time_max)
    ELSE _get_mock_events(attendee)

\* the values of all_events, one list after the other in attendee order
RECURSIVE AllEvents(_, _, _, _, _, _)
AllEvents(cal, svc, attendees, seen, time_min, time_max) ==
    IF attendees = <<>> THEN <<>>
    ELSE IF Head(attendees) \in seen
    THEN AllEvents(cal, svc, Tail(attendees), seen, time_min, time_max)
    ELSE AttendeeEvents(cal, svc, Head(attendees), time_min, time_max)
         \o AllEvents(cal, svc, Tail(attendees), seen \cup {Head(attendees)},
                      time_min, time_max)

\* one candidate against the events in order: "free", "busy", or "raise"
\* when a comparison meets an aware and a naive datetime
RECURSIVE CheckEvents(_, _, _)
CheckEvents(evs, current_date, end_time) ==
    IF evs = <<>> THEN "free"
    ELSE LET event_start == fromisoformat(replace_Z(Head(evs).StartTime))
             event_end == fromisoformat(replace_Z(Head(evs).EndTime))
         IN  IF ~Comparable(current_date, event_end) THEN "raise"
             ELSE IF OrderKey(current_date) < OrderKey(event_end)
             THEN IF ~Comparable(end_time, event_start) THEN "raise"
                  ELSE IF OrderKey(end_time) > OrderKey(event_start) THEN "busy"
                  ELSE CheckEvents(Tail(evs), current_date, end_time)
             ELSE CheckEvents(Tail(evs), current_date, end_time)

NextBusinessCandidate(current_date) ==
    LET stepped == plus(current_date, SLOT_STEP)
    IN  IF hour_of(stepped) >= 17
        THEN replace_hm(plus(stepped, DAY), 9, 0)
        ELSE stepped

\* the iterations of the while loop up to the one that moves current_date
\* to 09:00 of the next day; ended when the loop is left
RECURSIVE ScanBusinessDay(_, _, _, _, _)
ScanBusinessDay(current_date, time_max, duration_minutes, evs, slots) ==
    IF ~Comparable(current_date, time_max)
    THEN [raised |-> TRUE, ended |-> TRUE, slots |-> <<>>, current_date |-> current_date]
    ELSE IF ~(OrderKey(current_date) < OrderKey(time_max))
    THEN [raised |-> FALSE, ended |-> TRUE, slots |-> slots, current_date |-> current_date]
    ELSE LET end_time == plus(current_date, duration_minutes)
             outcome == IF weekday(current_date) < 5
                           /\ 9 <= hour_of(current_date) /\ hour_of(current_date) < 17
                        THEN CheckEvents(evs, current_date, end_time)
                        ELSE "skipped"
             slot == [start_time |-> isoformat(current_date),
                      end_time |-> isoformat(end_time)]
             kept == IF outcome = "free" THEN Append(slots, slot) ELSE slots
             stepped == NextBusinessCandidate(current_date)
         IN  IF outcome = "raise"
             THEN [raised |-> TRUE, ended |-> TRUE, slots |-> <<>>,
                   current_date |-> current_date]
             ELSE IF hour_of(plus(current_date, SLOT_STEP)) >= 17
             THEN [raised |-> FALSE, ended |-> FALSE, slots |-> kept,
                   current_date |-> stepped]
             ELSE ScanBusinessDay(stepped, time_max, duration_minutes, evs, kept)

\* the while loop, day after day
RECURSIVE ScanBusinessSlots(_, _, _, _, _)
ScanBusinessSlots(current_date, time_max, duration_minutes, evs, slots) ==
    LET day == ScanBusinessDay(current_date, time_max, duration_minutes, evs, slots)
    IN  IF day.ended
        THEN [raised |-> day.raised, slots |-> day.slots]
        ELSE ScanBusinessSlots(day.current_date, time_max, duration_minutes, evs, day.slots)

\* the made-up slots of the first day only
DefaultSlots_FirstDay(time_min, duration_minutes, now_utc) ==
    LET at_ten == replace_hm(time_min, 10, 0)
        default_start == IF OrderKey(at_ten) < OrderKey(utcnow(now_utc))
                         THEN replace_hm(plus(utcnow(now_utc), DAY), 10, 0)
                         ELSE at_ten
    IN  [raised |-> FALSE,
         slots |-> IF weekday(default_start) < 5
                   THEN <<[start_time |-> isoformat(default_start),
                           end_time |-> isoformat(plus(default_start, duration_minutes))]>>
                   ELSE <<>>]

\* the slots made up when the scan found none: 10:00 on the weekdays among
\* three consecutive days
DefaultSlots(time_min, duration_minutes, now_utc) ==
    LET at_ten == replace_hm(time_min, 10, 0)
        default_start == IF OrderKey(at_ten) < OrderKey(utcnow(now_utc))
                         THEN replace_hm(plus(utcnow(now_utc), DAY), 10, 0)
                         ELSE at_ten
        slot(i) == [start_time |-> isoformat(plus(default_start, i * DAY)),
                    end_time |-> isoformat(plus(plus(default_start, i * DAY), duration_minutes))]
        days == <<0, 1, 2>>
    IN  [raised |-> FALSE,
         slots |-> [k \in 1..Len(SelectSeq(days, LAMBDA i : weekday(plus(default_start, i * DAY)) < 5)) |->
                       slot(SelectSeq(days, LAMBDA i : weekday(plus(default_start, i * DAY)) < 5)[k])]]

\* the top of the list the search returns
MAX_SLOTS == 10

\* returns [raised, slots]; raised when a comparison of datetimes fails
find_available_slots(attendees, duration_minutes, time_min, time_max, cal, svc, now_utc) ==
    LET evs == AllEvents(cal, svc, attendees, {}, time_min, time_max)
        scanned == ScanBusinessSlots(replace_hm(time_min, 9, 0), time_max,
                                     duration_minutes, evs, <<>>)
        found == IF scanned.raised \/ scanned.slots # <<>>
                 THEN scanned
                 ELSE IF ~Comparable(time_min, utcnow(now_utc))
                 THEN [raised |-> TRUE, slots |-> <<>>]
                 ELSE DefaultSlots(time_min, duration_minutes, now_utc)
    IN  [raised |-> found.raised,
         slots |-> SubSeq(found.slots, 1, IF Len(found.slots) < MAX_SLOTS
                                          THEN Len(found.slots) ELSE MAX_SLOTS)]

----------------------------------------------------------------------------
(* SchedulerAgent: the handlers of the workflow.  A handler returns       *)
(* [raised, out]: whether it raised, and the value it hands on.            *)

\* the fields SchedulingRequest requires
RequiredFields == {"request_id", "datetime", "from_email", "subject", "email_content"}

Emails(attendees) == [i \in 1..Len(attendees) |-> attendees[i].email]

_parse_request(state) ==
    IF state.from_email \notin Range(Emails(state.attendees))
    THEN [state EXCEPT !.attendees = Append(@, [email |-> state.from_email])]
    ELSE state

_check_availability(state, cal, svc, now_utc) ==
    LET found == find_available_slots(Emails(state.attendees), state.duration_minutes,
                                      utcnow(now_utc), plus(utcnow(now_utc), 7 * DAY),
                                      cal, svc, now_utc)
    IN  [raised |-> found.raised,
         out |-> [state |-> state,
                  available_slots |-> found.slots,
                  has_availability |-> found.slots # <<>>]]

_check_availability_decision(d) ==
    IF d.has_availability THEN "available" ELSE "conflict"

\* slot.start_time is an attribute access; the slots find_available_slots
\* returns are dicts, which have no such attribute
HasAttribute(obj, name) == FALSE

\* GoogleCalendarManager.create_event (the definition the class keeps).  A
\* user without session, a failing insert and a successful insert all
\* return the event in the StartTime/EndTime shape, with no sign of failure
create_event(user_email, event_data) ==
    LET echoed == [Summary |-> event_data.summary,
                   StartTime |-> event_data.start.dateTime,
                   EndTime |-> event_data.end.dateTime]
    IN  IF user_email \notin services THEN echoed
        ELSE IF user_email \in down THEN echoed
        ELSE echoed

_schedule_event(d) ==
    LET slot == d.available_slots[1]
    IN  IF ~HasAttribute(slot, "start_time")
        THEN [raised |-> TRUE, out |-> None]
        ELSE [raised |-> FALSE,
              out |-> [state |-> d.state,
                       scheduled_event |->
                           create_event(d.state.from_email,
                                        [summary |-> d.state.subject,
                                         start |-> [dateTime |-> slot.start_time],
                                         end |-> [dateTime |-> slot.end_time]]),
                       scheduled_slot |-> slot]]

\* the suggestions kept of the wider search
MAX_SUGGESTIONS == 3

_handle_conflict(d, cal, svc, now_utc) ==
    LET found == find_available_slots(Emails(d.state.attendees), d.state.duration_minutes,
                                      plus(utcnow(now_utc), DAY),
                                      plus(utcnow(now_utc), 14 * DAY), cal, svc, now_utc)
    IN  [raised |-> found.raised,
         out |-> [state |-> d.state,
                  suggested_slots |-> SubSeq(found.slots, 1,
                                             IF Len(found.slots) < MAX_SUGGESTIONS
                                             THEN Len(found.slots) ELSE MAX_SUGGESTIONS)]]

SchedulingResponse(request_id, status, scheduled, suggested, errors) ==
    [request_id |-> request_id, status |-> status,
     scheduled_events |-> scheduled, suggested_times |-> suggested, errors |-> errors]

_generate_response(d) ==
    IF "scheduled_event" \in DOMAIN d
    THEN IF ~HasAttribute(d.scheduled_slot, "start_time")
         THEN [raised |-> TRUE, out |-> None]
         ELSE [raised |-> FALSE,
               out |-> SchedulingResponse(d.state.request_id, "scheduled",
                                          <<d.scheduled_slot>>, <<>>, <<>>)]
    ELSE IF Get(d, "suggested_slots", <<>>) # <<>>
            /\ ~HasAttribute(d.suggested_slots[1], "start_time")
    THEN [raised |-> TRUE, out |-> None]
    ELSE [raised |-> FALSE,
          out |-> SchedulingResponse(d.state.request_id, "conflict",
                                     <<>>, Get(d, "suggested_slots", <<>>), <<>>)]

\* the response of schedule() when anything raised
ErrorResponse(req) ==
    SchedulingResponse(Get(req, "request_id", "unknown"), "error", <<>>, <<>>, <<"error">>)

----------------------------------------------------------------------------
(* Inputs *)

\* clock readings: every half hour of NowDays days, as an aware UTC datetime
NowSet == {datetime(d * DAY + h * HOUR + m, "utc") :
             d \in 0..(NowDays - 1), h \in 0..23, m \in {0, 30}}

\* the token sets of the hint texts
TokenSets == {T \in SUBSET (LowerTokens \cup UpperTokens) : Cardinality(T) <= MaxHintTokens}

HintTexts == {str(T) : T \in TokenSets} \cup {[kind |-> "none", tokens |-> {}]}

Idle == [status |-> "idle"]

----------------------------------------------------------------------------
(* The resolver on its own: every hint text at every clock reading *)

InitResolve ==
    /\ now \in NowSet
    /\ request \in {[TimeConstraints |-> h] : h \in HintTexts}
    /\ calendar = <<>>
    /\ services = {}
    /\ down = {}
    /\ pc = "resolve"
    /\ window = None
    /\ events = <<>>
    /\ selected = None
    /\ response = Idle
    /\ history = <<>>
    /\ data = None

Resolve ==
    /\ pc = "resolve"
    /\ window' = _parse_time_constraints(request.TimeConstraints, now)
    /\ pc' = "resolved"
    /\ UNCHANGED <<now, request, calendar, services, down, events, selected, response, history, data>>

NextResolve == Resolve

SpecResolve == InitResolve /\ [][NextResolve]_vars

----------------------------------------------------------------------------
(* MeetingScheduler.schedule_meeting against a calendar backend: a request *)
(* is scheduled, the chosen slot is entered in every participant's         *)
(* calendar, and the same request is scheduled again.                      *)

\* a calendar is empty or holds one hour-long meeting, entered in IST, that
\* begins where the window resolved for the request begins
BusyAt(start) ==
    TimedItem(astimezone(start, "ist"), astimezone(plus(start, HOUR), "ist"), "Busy")

CalendarChoices(request_data, now_utc) ==
    LET w == _parse_time_constraints(TimeConstraintsOf(request_data), now_utc)
    IN  IF w.raised THEN {<<>>} ELSE {<<>>, <<BusyAt(w.time_min)>>}

MeetingNows == {datetime(d * DAY + h * HOUR + m, "utc") :
                  d \in 0..(NowDays - 1), h \in {0, 6, 12, 18}, m \in {0, 30}}

MeetingTexts == {str(T \cup D) : T \in {{}, {"Thursday"}, {"monday"}, {"this week"}, {"next week"}},
                                 D \in {{}, {"1 hour"}}}

\* requests with a text, one that lists an attendee twice, one whose
\* hint is null and that has no text, and one that states a duration
MeetingRequests ==
    {[From |-> U1,
      Attendees |-> <<[email |-> U2], [email |-> U3]>>,
      Subject |-> "Sync",
      EmailContent |-> text] : text \in MeetingTexts}
    \cup {[From |-> U1,
           Attendees |-> <<[email |-> U2], [email |-> U2]>>,
           Subject |-> "Sync",
           EmailContent |-> str({})],
          [From |-> U1,
           Attendees |-> <<[email |-> U2]>>,
           Subject |-> "Sync",
           TimeConstraints |-> [kind |-> "none", tokens |-> {}]],
          [From |-> U1,
           Attendees |-> <<[email |-> U2]>>,
           Subject |-> "Sync",
           EmailContent |-> str({"next week"}),
           Duration_mins |-> 60]}

Init ==
    /\ now \in MeetingNows
    /\ request \in MeetingRequests
    /\ calendar \in [Users -> CalendarChoices(request, now)]
    /\ services = {}
    /\ down \in {{}} \cup {{u} : u \in Users}
    /\ pc = "request"
    /\ window = None
    /\ events = None
    /\ selected = None
    /\ response = Idle
    /\ history = <<>>
    /\ data = None

ScheduleMeeting ==
    /\ pc = "request"
    /\ \E r \in {schedule_meeting(request, now, calendar, services)} :
           /\ window' = r.window
           /\ events' = r.events
           /\ selected' = r.selected
           /\ response' = r.response
           /\ services' = r.services
    /\ pc' = "responded"
    /\ UNCHANGED <<now, request, calendar, down, history, data>>

\* the calendar with one more item, kept in start order
InsertByStart(items, item) ==
    LET before == SelectSeq(items, LAMBDA x : ItemStart(x) <= ItemStart(item))
        after == SelectSeq(items, LAMBDA x : ItemStart(x) > ItemStart(item))
    IN  before \o <<item>> \o after

\* the scheduled meeting is entered in the calendar of every participant
Resubmit ==
    /\ pc = "responded"
    /\ selected # None
    /\ Len(history) + 1 < MaxRuns
    /\ LET item == [start |-> [dateTime |-> response.EventStart],
                    end |-> [dateTime |-> response.EventEnd],
                    summary |-> response.Subject]
       IN  calendar' = [u \in Users |->
                           IF u \in Range(AttendeesOf(request))
                           THEN InsertByStart(calendar[u], item)
                           ELSE calendar[u]]
    /\ history' = Append(history, response)
    /\ pc' = "request"
    /\ UNCHANGED <<now, request, services, down, window, events, selected, response, data>>

Next == ScheduleMeeting \/ Resubmit

Spec == Init /\ [][Next]_vars

----------------------------------------------------------------------------
(* The slot search on its own: _find_available_slot on windows, durations  *)
(* and event lists drawn from bounded sets.  An event list is given either *)
(* as the calendar API's items or as the dicts get_events builds of them.  *)

\* window starts: Thursday and Friday, at 09:00, 16:00 and 22:00 IST
SearchStarts ==
    {astimezone(datetime(d * DAY + h * HOUR, "ist"), "utc") : d \in {3, 4}, h \in {9, 16, 22}}

\* window lengths, in minutes: one business day, and a day and a half
SearchSpans == {8 * HOUR, 36 * HOUR}

\* the busy intervals of one participant, as offsets from the window start
BusyPatterns == {<<>>, <<0, 30>>, <<0, 90>>, <<30, 60>>, <<90, 120>>}

\* the event lists of one participant for a pattern: none, or the one event
\* in either shape
EventLists(time_min, pattern) ==
    IF pattern = <<>> THEN {<<>>}
    ELSE LET item == TimedItem(astimezone(plus(time_min, pattern[1]), "ist"),
                               astimezone(plus(time_min, pattern[2]), "ist"), "Busy")
         IN  {<<item>>, <<FlatEvent(item)>>}

ParticipantEvents(time_min) ==
    UNION {EventLists(time_min, pattern) : pattern \in BusyPatterns}

InitSearch ==
    /\ now \in {datetime(0, "utc")}
    /\ request \in {[duration_minutes |-> d] : d \in {30, 60}}
    /\ calendar = <<>>
    /\ services = {}
    /\ down = {}
    /\ pc = "search"
    /\ \E time_min \in SearchStarts, span \in SearchSpans :
          /\ window = [raised |-> FALSE, time_min |-> time_min,
                       time_max |-> plus(time_min, span)]
          /\ \E req \in ParticipantEvents(time_min),
                att \in [{U2, U3} -> ParticipantEvents(time_min)] :
                events = [requester |-> req, attendees |-> att]
    /\ selected = None
    /\ response = Idle
    /\ history = <<>>
    /\ data = None

FindAvailableSlot ==
    /\ pc = "search"
    /\ selected' = _find_available_slot(events.requester, events.attendees,
                                        window.time_min, window.time_max,
                                        request.duration_minutes)
    /\ pc' = "searched"
    /\ UNCHANGED <<now, request, calendar, services, down, window, events, response, history, data>>

NextSearch == FindAvailableSlot

SpecSearch == InitSearch /\ [][NextSearch]_vars

----------------------------------------------------------------------------
(* SchedulerAgent.schedule: the request is validated and the workflow runs *)
(* its nodes one after the other until one raises or the last returns.     *)

\* days covered by the long calendar entries
BlockDays == NowDays + 15

\* an all-day entry over the whole period
AllDayBlock == <<AllDayItem(0, BlockDays, "Out of office")>>

\* a timed entry over the whole period
TimedBlock == <<TimedItem(datetime(0, "utc"), datetime(BlockDays * DAY, "utc"), "Offsite")>>

AgentNows == {datetime(d * DAY + h * HOUR + m, "utc") :
                d \in 0..(NowDays - 1), h \in {8, 18}, m \in {0, 30}}

AttendeeLists == {<<>>, <<[email |-> U2]>>, <<[email |-> U2], [email |-> U3]>>,
                  <<[email |-> U1], [email |-> U2]>>}

\* the request your_meeting_assistant builds, and one that lacks a field
AgentRequests ==
    {[request_id |-> "r1", datetime |-> "now", from_email |-> U1, attendees |-> a,
      subject |-> "Sync", email_content |-> "Let us meet", duration_minutes |-> 30,
      timezone |-> "UTC"] : a \in AttendeeLists}
    \cup {[request_id |-> "r1", datetime |-> "now", from_email |-> U1,
           attendees |-> <<[email |-> U2]>>, duration_minutes |-> 30, timezone |-> "UTC"]}

InitAgent ==
    /\ now \in AgentNows
    /\ request \in AgentRequests
    /\ calendar \in [Users -> {<<>>, AllDayBlock, TimedBlock}]
    /\ services \in {Users, Users \ {U3}}
    /\ down = {}
    /\ pc = "schedule"
    /\ window = None
    /\ events = None
    /\ selected = None
    /\ response = Idle
    /\ history = <<>>
    /\ data = None

\* schedule(): SchedulingRequest(**request), then workflow.invoke
Invoke ==
    /\ pc = "schedule"
    /\ IF RequiredFields \subseteq DOMAIN request
       THEN /\ data' = request
            /\ pc' = "parse_request"
            /\ UNCHANGED response
       ELSE /\ response' = ErrorResponse(request)
            /\ pc' = "done"
            /\ UNCHANGED data
    /\ UNCHANGED <<now, request, calendar, services, down, window, events, selected, history>>

WorkflowNodes == {"parse_request", "check_availability", "schedule_event",
                  "handle_conflict", "generate_response"}

\* what the node at pc returns: [raised, out]
RunNode(node, d) ==
    CASE node = "parse_request" -> [raised |-> FALSE, out |-> _parse_request(d)]
      [] node = "check_availability" -> _check_availability(d, calendar, services, now)
      [] node = "schedule_event" -> _schedule_event(d)
      [] node = "handle_conflict" -> _handle_conflict(d, calendar, services, now)
      [] node = "generate_response" -> _generate_response(d)

\* the edges with the schedule node left out
NextNode_SkipSchedule(node, out) ==
    CASE node = "parse_request" -> "check_availability"
      [] node = "check_availability" ->
            IF _check_availability_decision(out) = "available"
            THEN "generate_response" ELSE "handle_conflict"
      [] node = "schedule_event" -> "generate_response"
      [] node = "handle_conflict" -> "generate_response"
      [] node = "generate_response" -> "done"

\* the edges of the workflow
NextNode(node, out) ==
    CASE node = "parse_request" -> "check_availability"
      [] node = "check_availability" ->
            IF _check_availability_decision(out) = "available"
            THEN "schedule_event" ELSE "handle_conflict"
      [] node = "schedule_event" -> "generate_response"
      [] node = "handle_conflict" -> "generate_response"
      [] node = "generate_response" -> "done"

\* one node of the workflow runs; an exception ends the request in the
\* error response of schedule()
WorkflowStep ==
    /\ pc \in WorkflowNodes
    /\ \E r \in {RunNode(pc, data)} :
          IF r.raised
          THEN /\ response' = ErrorResponse(request)
               /\ pc' = "done"
               /\ UNCHANGED data
          ELSE /\ pc' = NextNode(pc, r.out)
               /\ IF pc = "generate_response"
                  THEN response' = r.out /\ UNCHANGED data
                  ELSE data' = r.out /\ UNCHANGED response
    /\ UNCHANGED <<now, request, calendar, services, down, window, events, selected, history>>

NextAgent == Invoke \/ WorkflowStep

SpecAgent == InitAgent /\ [][NextAgent]_vars

----------------------------------------------------------------------------
(* find_available_slots called twice with the same attendees, duration and *)
(* window, the clock moving on between the calls.                          *)

\* minutes the clock moves between the two calls
ClockStep == 3 * HOUR

\* windows of ten hours from 08:00, on a Monday and on a Saturday, without
\* tzinfo as SchedulerAgent builds them
SlotWindows ==
    {[raised |-> FALSE, time_min |-> datetime(d * DAY + 8 * HOUR, "naive"),
      time_max |-> datetime(d * DAY + 18 * HOUR, "naive")] : d \in {0, 5}}

InitSlots ==
    /\ now \in {datetime(d * DAY + h * HOUR, "utc") : d \in {0, 5}, h \in {6, 8, 9}}
    /\ request \in {[attendees |-> a, duration_minutes |-> m] :
                      a \in {<<U1>>, <<U1, U2>>}, m \in {30, 60}}
    /\ calendar \in [Users -> {<<>>, AllDayBlock}]
    /\ services = Users
    /\ down = {}
    /\ pc = "search"
    /\ window \in SlotWindows
    /\ events = None
    /\ selected = None
    /\ response = Idle
    /\ history = <<>>
    /\ data = None

FindSlots ==
    /\ pc = "search"
    /\ data' = find_available_slots(request.attendees, request.duration_minutes,
                                    window.time_min, window.time_max,
                                    calendar, services, now)
    /\ pc' = "searched"
    /\ UNCHANGED <<now, request, calendar, services, down, window, events, selected,
                   response, history>>

ClockAdvances ==
    /\ pc = "searched"
    /\ Len(history) + 1 < MaxRuns
    /\ history' = Append(history, data)
    /\ now' = plus(now, ClockStep)
    /\ pc' = "search"
    /\ UNCHANGED <<request, calendar, services, down, window, events, selected,
                   response, data>>

NextSlots == FindSlots \/ ClockAdvances

SpecSlots == InitSlots /\ [][NextSlots]_vars

----------------------------------------------------------------------------
(* The session registry under concurrent requests.  The service keeps one  *)
(* GoogleCalendarManager for all requests; get_events looks the user up in *)
(* self.services and, when missing, stores what get_service_for_user       *)
(* returns.  Each thread runs these steps for one user; a session is       *)
(* a number, 0 for none.  services holds the keys of the registry and      *)
(* data.session the object stored under each key.                          *)

Threads == {"t1", "t2"}

NoSession == 0

\* the registry load_all_credentials leaves: empty, or a session for U1
LoadedRegistries ==
    {[keys |-> {}, session |-> [u \in Users |-> NoSession], built |-> 0],
     [keys |-> {U1}, session |-> [u \in Users |-> IF u = U1 THEN 1 ELSE NoSession],
      built |-> 1]}

InitSessions ==
    /\ now = datetime(0, "utc")
    /\ request \in [Threads -> Users]
    /\ calendar = [u \in Users |-> <<>>]
    /\ \E reg \in LoadedRegistries :
          /\ services = reg.keys
          /\ data = [session |-> reg.session,
                     built |-> reg.built,
                     calls |-> [u \in Users |-> 0],
                     made |-> [t \in Threads |-> NoSession],
                     service |-> [t \in Threads |-> NoSession]]
    /\ down \in {{}, {U3}}
    /\ pc = [t \in Threads |-> "lookup"]
    /\ window = None
    /\ events = None
    /\ selected = None
    /\ response = Idle
    /\ history = <<>>

\* if user_email not in self.services
LookupSession(t) ==
    /\ pc[t] = "lookup"
    /\ pc' = [pc EXCEPT ![t] = IF request[t] \in services THEN "read" ELSE "build"]
    /\ UNCHANGED <<now, request, calendar, services, down, window, events, selected,
                   response, history, data>>

\* get_service_for_user(user_email): builds a new session, or raises for a
\* user without token, and get_events then returns the mock events
BuildSession(t) ==
    /\ pc[t] = "build"
    /\ IF request[t] \in down
       THEN /\ pc' = [pc EXCEPT ![t] = "done"]
            /\ data' = [data EXCEPT !.calls[request[t]] = @ + 1]
       ELSE /\ pc' = [pc EXCEPT ![t] = "store"]
            /\ data' = [data EXCEPT !.built = @ + 1,
                                    !.calls[request[t]] = @ + 1,
                                    !.made[t] = data.built + 1]
    /\ UNCHANGED <<now, request, calendar, services, down, window, events, selected,
                   response, history>>

\* self.services[user_email] = <the session built>
StoreSession(t) ==
    /\ pc[t] = "store"
    /\ services' = services \cup {request[t]}
    /\ data' = [data EXCEPT !.session[request[t]] = data.made[t]]
    /\ pc' = [pc EXCEPT ![t] = "read"]
    /\ UNCHANGED <<now, request, calendar, down, window, events, selected,
                   response, history>>

\* service = self.services[user_email]
ReadSession(t) ==
    /\ pc[t] = "read"
    /\ data' = [data EXCEPT !.service[t] = data.session[request[t]]]
    /\ pc' = [pc EXCEPT ![t] = "done"]
    /\ UNCHANGED <<now, request, calendar, services, down, window, events, selected,
                   response, history>>

NextSessions ==
    \E t \in Threads :
        LookupSession(t) \/ BuildSession(t) \/ StoreSession(t) \/ ReadSession(t)

SpecSessions == InitSessions /\ [][NextSessions]_vars

----------------------------------------------------------------------------
(* LLMService: the two calls to the completion service.  A reply of the    *)
(* service is [kind, content]: the POST raised, answered with a status     *)
(* other than 200, answered 200 with a body that lacks the choices, or     *)
(* answered 200 with a content text.  A text is [json, ...]: not JSON, a   *)
(* JSON object with its fields, or another JSON value.                     *)

\* the text "{}"
EmptyObjectText == [json |-> "object", fields |-> <<>>]

_call_llm(reply) ==
    CASE reply.kind = "network_error" -> EmptyObjectText
      [] reply.kind = "status" -> EmptyObjectText
      [] reply.kind = "malformed_body" -> EmptyObjectText
      [] reply.kind = "ok" -> reply.content

\* json.loads: [raised, value]; a value is [type, ...]
json_loads(text) ==
    CASE text.json = "invalid" -> [raised |-> TRUE, value |-> None]
      [] text.json = "object" ->
            [raised |-> FALSE, value |-> [type |-> "dict", fields |-> text.fields]]
      [] text.json = "array" -> [raised |-> FALSE, value |-> [type |-> "list"]]

\* the extraction parse_email falls back to
DefaultExtraction ==
    [type |-> "dict",
     fields |-> [participants |-> <<>>, time_constraints |-> EmptyString,
                 meeting_duration |-> 30]]

parse_email(reply) ==
    LET loaded == json_loads(_call_llm(reply))
    IN  IF loaded.raised THEN DefaultExtraction ELSE loaded.value

\* available_slots[index] with Python's indexing: [raised, slot]
ListItem(list, index) ==
    IF index.type # "int" THEN [raised |-> TRUE, slot |-> None]
    ELSE IF 0 <= index.value /\ index.value < Len(list)
    THEN [raised |-> FALSE, slot |-> list[index.value + 1]]
    ELSE IF index.value < 0 /\ -Len(list) <= index.value
    THEN [raised |-> FALSE, slot |-> list[Len(list) + index.value + 1]]
    ELSE [raised |-> TRUE, slot |-> None]

IntIndex(n) == [type |-> "int", value |-> n]

\* the slots offered in the prompt
OFFERED_SLOTS == 5

limited_slots(available_slots) ==
    SubSeq(available_slots, 1,
           IF Len(available_slots) < OFFERED_SLOTS THEN Len(available_slots)
           ELSE OFFERED_SLOTS)

\* what the except of suggest_meeting_time returns
FirstSlotFallback(available_slots) ==
    [selected_slot |-> IF available_slots # <<>> THEN available_slots[1] ELSE None,
     reasoning |-> "Default selection due to processing error."]

suggest_meeting_time(available_slots, reply) ==
    LET loaded == json_loads(_call_llm(reply))
    IN  IF loaded.raised \/ loaded.value.type # "dict"
        THEN FirstSlotFallback(available_slots)
        ELSE LET result == loaded.value.fields
                 answered == Get(result, "selected_slot", IntIndex(0))
             IN  IF answered.type # "int"
                 THEN FirstSlotFallback(available_slots)
                 ELSE LET selected_index ==
                              IF answered.value >= Len(available_slots)
                              THEN IntIndex(0) ELSE answered
                          item == ListItem(available_slots, selected_index)
                      IN  IF item.raised
                          THEN FirstSlotFallback(available_slots)
                          ELSE [selected_slot |-> item.slot,
                                reasoning |-> Get(result, "reasoning",
                                                  "This time works for all attendees.")]

\* most slots handed to suggest_meeting_time
MaxAvailable == 7

\* half-hour slots of Monday from 09:00 UTC
SlotNumber(i) ==
    [start_time |-> isoformat(datetime(9 * HOUR + (i - 1) * SLOT_STEP, "utc")),
     end_time |-> isoformat(datetime(9 * HOUR + i * SLOT_STEP, "utc"))]

AvailableLists == {[i \in 1..n |-> SlotNumber(i)] : n \in 0..MaxAvailable}

\* the index values a content may answer with
IndexAnswers == {IntIndex(n) : n \in {0, 1, 4, 5, 6, 9, -1, -9}}
                \cup {[type |-> "str"], [type |-> "null"]}

CompletionTexts ==
    {[json |-> "invalid"], [json |-> "array"], EmptyObjectText,
     [json |-> "object",
      fields |-> [participants |-> <<U2>>, time_constraints |-> str({"next week"}),
                  meeting_duration |-> 60]]}
    \cup {[json |-> "object", fields |-> [selected_slot |-> a, reasoning |-> "r"]] :
            a \in IndexAnswers}

CompletionReplies ==
    {[kind |-> k, content |-> [json |-> "invalid"]] :
        k \in {"network_error", "status", "malformed_body"}}
    \cup {[kind |-> "ok", content |-> c] : c \in CompletionTexts}

InitLLM ==
    /\ now = datetime(0, "utc")
    /\ request \in CompletionReplies
    /\ calendar = [u \in Users |-> <<>>]
    /\ services = {}
    /\ down = {}
    /\ pc = "llm"
    /\ window = None
    /\ events = None
    /\ selected = None
    /\ response = Idle
    /\ history = <<>>
    /\ data \in AvailableLists

ParseEmail ==
    /\ pc = "llm"
    /\ response' = parse_email(request)
    /\ pc' = "parsed"
    /\ UNCHANGED <<now, request, calendar, services, down, window, events, selected,
                   history, data>>

SuggestMeetingTime ==
    /\ pc = "llm"
    /\ response' = suggest_meeting_time(data, request)
    /\ pc' = "suggested"
    /\ UNCHANGED <<now, request, calendar, services, down, window, events, selected,
                   history, data>>

NextLLM == ParseEmail \/ SuggestMeetingTime

SpecLLM == InitLLM /\ [][NextLLM]_vars

----------------------------------------------------------------------------
(* your_meeting_assistant: the payload is turned into a scheduling         *)
(* request, SchedulerAgent.schedule runs the whole workflow on it, and the *)
(* payload is echoed with the outcome.  The To field is the sequence of    *)
(* the texts between its commas.                                           *)

\* workflow.invoke from a node on: the response of the last node, or the
\* error response as soon as a node raises
RECURSIVE Workflow(_, _, _)
Workflow(node, d, req) ==
    CHOOSE answer \in
        {IF r.raised THEN ErrorResponse(req)
         ELSE IF node = "generate_response" THEN r.out
         ELSE Workflow(NextNode(node, r.out), r.out, req) : r \in {RunNode(node, d)}} : TRUE

schedule(req) ==
    IF RequiredFields \subseteq DOMAIN req
    THEN Workflow("parse_request", req, req)
    ELSE ErrorResponse(req)

\* a dict without keys
EmptyDict == <<>>

your_meeting_assistant(payload) ==
    LET to == Get(payload, "To", <<>>)
        stripped == SelectSeq(to, LAMBDA part : part # "")
        request_data ==
            [request_id |-> Get(payload, "Request_id", "uuid4"),
             datetime |-> "now",
             from_email |-> Get(payload, "From", ""),
             attendees |-> [i \in 1..Len(stripped) |-> [email |-> stripped[i]]],
             subject |-> Get(payload, "Subject", ""),
             email_content |-> Get(payload, "Body", ""),
             duration_minutes |-> 30,
             timezone |-> "UTC"]
    IN  CHOOSE formatted_response \in
            {[Request_id |-> Get(payload, "Request_id", ""),
              From |-> Get(payload, "From", ""),
              To |-> to,
              Subject |-> Get(payload, "Subject", ""),
              Body |-> Get(payload, "Body", ""),
              EventStart |-> Get(Get(Get(result, "scheduled_event", EmptyDict),
                                     "start", EmptyDict), "dateTime", EmptyString),
              EventEnd |-> Get(Get(Get(result, "scheduled_event", EmptyDict),
                                   "end", EmptyDict), "dateTime", EmptyString),
              Duration_mins |-> Get(payload, "Duration_mins", 30),
              MetaData |-> result] : result \in {schedule(request_data)}} : TRUE

AssistantPayloads ==
    {[Request_id |-> "r1", From |-> U1, To |-> to, Subject |-> "Sync",
      Body |-> "Let us meet"] : to \in {<<U2>>, <<U2, U3>>, <<U2, "">>}}
    \cup {[From |-> U1, To |-> <<U2>>, Subject |-> "Sync", Body |-> "Let us meet",
           Duration_mins |-> 60]}

InitAssistant ==
    /\ now \in AgentNows
    /\ request \in AssistantPayloads
    /\ calendar \in [Users -> {<<>>, AllDayBlock}]
    /\ services \in {Users, Users \ {U3}}
    /\ down = {}
    /\ pc = "payload"
    /\ window = None
    /\ events = None
    /\ selected = None
    /\ response = Idle
    /\ history = <<>>
    /\ data = None

YourMeetingAssistant ==
    /\ pc = "payload"
    /\ response' = your_meeting_assistant(request)
    /\ pc' = "answered"
    /\ UNCHANGED <<now, request, calendar, services, down, window, events, selected,
                   history, data>>

NextAssistant == YourMeetingAssistant

SpecAssistant == InitAssistant /\ [][NextAssistant]_vars

----------------------------------------------------------------------------
(* The two search loops, one iteration at a time.  data holds the loop's   *)
(* candidate (current_time or current_date) and the slots gathered so far; *)
(* pc tells which loop runs, and is "returned" once the function returned. *)

\* windows of find_available_slots: from 08:00 of a Monday, a Friday and a
\* Saturday, over ten hours or two days and ten hours
LoopWindows ==
    {[raised |-> FALSE, time_min |-> datetime(d * DAY + 8 * HOUR, "naive"),
      time_max |-> datetime(d * DAY + 8 * HOUR + span, "naive")] :
        d \in {0, 4, 5}, span \in {10 * HOUR, 58 * HOUR}}

InitSchedulerLoop ==
    /\ pc = "scheduler_loop"
    /\ request \in {[duration_minutes |-> d] : d \in {30, 60}}
    /\ calendar = [u \in Users |-> <<>>]
    /\ \E time_min \in SearchStarts, span \in SearchSpans :
          /\ window = [raised |-> FALSE, time_min |-> time_min,
                       time_max |-> plus(time_min, span)]
          /\ \E req \in ParticipantEvents(time_min) \cup {TimedBlock} :
                events = [requester |-> req, attendees |-> [u \in {U2} |-> <<>>]]
          /\ data = [current |-> time_min, slots |-> <<>>]

InitManagerLoop ==
    /\ pc = "manager_loop"
    /\ request \in {[attendees |-> <<U1>>, duration_minutes |-> d] : d \in {30, 60}}
    /\ calendar \in [Users -> {<<>>, AllDayBlock}]
    /\ window \in LoopWindows
    /\ events = AllEvents(calendar, Users, request.attendees, {},
                          window.time_min, window.time_max)
    /\ data = [current |-> replace_hm(window.time_min, 9, 0), slots |-> <<>>]

InitLoops ==
    /\ now = datetime(6 * HOUR, "utc")
    /\ services = Users
    /\ down = {}
    /\ selected = None
    /\ response = Idle
    /\ history = <<>>
    /\ (InitSchedulerLoop \/ InitManagerLoop)

\* one pass through the while body of _find_available_slot
SchedulerIteration ==
    /\ pc = "scheduler_loop"
    /\ Instant(data.current) + request.duration_minutes <= Instant(window.time_max)
    /\ LET slot_end == plus(data.current, request.duration_minutes)
           requester_available == ~AnyEvent(events.requester, data.current, slot_end)
           all_attendees_available ==
               \A email \in DOMAIN events.attendees :
                   ~AnyEvent(events.attendees[email], data.current, slot_end)
       IN  IF requester_available /\ all_attendees_available
           THEN /\ selected' = [start_time |-> isoformat(data.current),
                                end_time |-> isoformat(slot_end)]
                /\ pc' = "returned"
                /\ UNCHANGED data
           ELSE /\ data' = [data EXCEPT !.current = NextCandidate(@)]
                /\ UNCHANGED <<selected, pc>>
    /\ UNCHANGED <<now, request, calendar, services, down, window, events, response, history>>

\* the while condition fails: return None
SchedulerExit ==
    /\ pc = "scheduler_loop"
    /\ ~(Instant(data.current) + request.duration_minutes <= Instant(window.time_max))
    /\ selected' = None
    /\ pc' = "returned"
    /\ UNCHANGED <<now, request, calendar, services, down, window, events, response,
                   history, data>>

\* one pass through the while body of find_available_slots
ManagerIteration ==
    /\ pc = "manager_loop"
    /\ Comparable(data.current, window.time_max)
    /\ OrderKey(data.current) < OrderKey(window.time_max)
    /\ LET end_time == plus(data.current, request.duration_minutes)
           outcome == IF weekday(data.current) < 5
                         /\ 9 <= hour_of(data.current) /\ hour_of(data.current) < 17
                      THEN CheckEvents(events, data.current, end_time)
                      ELSE "skipped"
           slot == [start_time |-> isoformat(data.current),
                    end_time |-> isoformat(end_time)]
       IN  IF outcome = "raise"
           THEN /\ response' = [raised |-> TRUE, slots |-> <<>>]
                /\ pc' = "returned"
                /\ UNCHANGED data
           ELSE /\ data' = [current |-> NextBusinessCandidate(data.current),
                            slots |-> IF outcome = "free"
                                      THEN Append(data.slots, slot) ELSE data.slots]
                /\ UNCHANGED <<response, pc>>
    /\ UNCHANGED <<now, request, calendar, services, down, window, events, selected, history>>

\* the while condition fails: the default slots if none was gathered, and
\* the first ten are returned
ManagerExit ==
    /\ pc = "manager_loop"
    /\ ~(Comparable(data.current, window.time_max)
         /\ OrderKey(data.current) < OrderKey(window.time_max))
    /\ \E found \in {IF ~Comparable(data.current, window.time_max)
                     THEN [raised |-> TRUE, slots |-> <<>>]
                     ELSE IF data.slots # <<>>
                     THEN [raised |-> FALSE, slots |-> data.slots]
                     ELSE IF ~Comparable(window.time_min, utcnow(now))
                     THEN [raised |-> TRUE, slots |-> <<>>]
                     ELSE DefaultSlots(window.time_min, request.duration_minutes, now)} :
          response' = [raised |-> found.raised,
                       slots |-> SubSeq(found.slots, 1,
                                        IF Len(found.slots) < MAX_SLOTS
                                        THEN Len(found.slots) ELSE MAX_SLOTS)]
    /\ pc' = "returned"
    /\ UNCHANGED <<now, request, calendar, services, down, window, events, selected,
                   history, data>>

NextLoops == SchedulerIteration \/ SchedulerExit \/ ManagerIteration \/ ManagerExit

\* a loop that has not returned takes its next step
SpecLoops == InitLoops /\ [][NextLoops]_vars /\ WF_vars(NextLoops)

----------------------------------------------------------------------------
(* Properties of the resolver *)

NowIST == astimezone(now, "ist")

\* Monday 00:00 IST of the week that holds the clock reading
ThisMondayIST == (NowIST.wall \div WEEK) * WEEK

Hint == request.TimeConstraints

NamesADay(text) ==
    text.kind = "str"
    /\ \E i \in 1..7 : Contains(lower(text), DayNames[i]) \/ Contains(lower(text), "thurs")

OnlyNextWeek(text) ==
    text.kind = "str" /\ ~NamesADay(text) /\ Contains(lower(text), "next week")

OnlyThisWeek(text) ==
    text.kind = "str" /\ ~NamesADay(text) /\ ~Contains(lower(text), "next week")
    /\ Contains(lower(text), "this week")

WindowStartIST == astimezone(window.time_min, "ist").wall
WindowEndIST == astimezone(window.time_max, "ist").wall

\* C8: a hint holding "next week" and no weekday name resolves, on every day
\* of the week, to Monday 10:00 through Friday 17:00 IST of the week after
\* the current one, and the window never starts inside the current week.
C8_NextWeekWindow ==
    (pc = "resolved" /\ OnlyNextWeek(Hint)) =>
        /\ ~window.raised
        /\ WindowStartIST = ThisMondayIST + WEEK + 10 * HOUR
        /\ WindowEndIST = ThisMondayIST + WEEK + 4 * DAY + 17 * HOUR
        /\ WindowStartIST >= ThisMondayIST + WEEK
        /\ window.time_min.tz = "utc" /\ window.time_max.tz = "utc"

\* Scenario C: "next week" evaluated on a Wednesday
C8_Witness ==
    pc = "resolved" /\ OnlyNextWeek(Hint) /\ weekday(NowIST) = 2
    /\ WindowStartIST = NowIST.wall - (NowIST.wall % DAY) + 5 * DAY + 10 * HOUR

\* C9: a hint holding "this week" (no weekday name, no "next week") resolves
\* to a window that starts tomorrow 10:00 when the local hour is 17 or later
\* and at the current local hour otherwise, and that ends on this week's
\* Friday 17:00; on a Friday past business hours it is the following Monday
\* 10:00 through the following Friday 17:00.
C9_ThisWeekWindow ==
    (pc = "resolved" /\ OnlyThisWeek(Hint)) =>
        /\ ~window.raised
        /\ IF weekday(NowIST) = 4 /\ hour_of(NowIST) >= 17
           THEN /\ WindowStartIST = ThisMondayIST + WEEK + 10 * HOUR
                /\ WindowEndIST = ThisMondayIST + WEEK + 4 * DAY + 17 * HOUR
           ELSE /\ WindowStartIST =
                      IF hour_of(NowIST) >= 17
                      THEN (NowIST.wall \div DAY) * DAY + DAY + 10 * HOUR
                      ELSE (NowIST.wall \div HOUR) * HOUR
                /\ WindowEndIST = ThisMondayIST + 4 * DAY + 17 * HOUR

\* C10: every window the resolver returns has its end after its start.
C10_WindowEndAfterStart ==
    (pc = "resolved" /\ ~window.raised) =>
        Instant(window.time_max) > Instant(window.time_min)

\* the numbers (Monday = 0) of the weekdays a text names, in any letter case
NamedDays(text) ==
    {d \in 0..6 : Contains(lower(text), DayNames[d + 1])}
    \cup (IF Contains(lower(text), "thurs") THEN {3} ELSE {})

\* 00:00 IST of the day that holds the clock reading
TodayIST == (NowIST.wall \div DAY) * DAY

\* C11: a hint naming a weekday resolves to 10:00-17:00 IST of the next
\* occurrence of a named weekday, today included unless the local time is
\* 17:00 or later, when it is the same weekday one week on; the end of the
\* window is later than now.
C11_WeekdayWindow ==
    (pc = "resolved" /\ NamesADay(Hint)) =>
        /\ ~window.raised
        /\ \E d \in NamedDays(Hint) :
              LET ahead == (WindowStartIST - 10 * HOUR - TodayIST) \div DAY
              IN  /\ WindowStartIST = TodayIST + ahead * DAY + 10 * HOUR
                  /\ WindowEndIST = TodayIST + ahead * DAY + 17 * HOUR
                  /\ (WindowStartIST \div DAY) % 7 = d
                  /\ ahead \in 0..7
                  /\ ahead = 0 <=> (weekday(NowIST) = d /\ hour_of(NowIST) < 17)
                  /\ ahead = 7 <=> (weekday(NowIST) = d /\ hour_of(NowIST) >= 17)
        /\ Instant(window.time_max) > Instant(now)

\* the named weekday is today and business hours are over
C11_Witness ==
    /\ pc = "resolved" /\ NamesADay(Hint)
    /\ weekday(NowIST) \in NamedDays(Hint) /\ hour_of(NowIST) >= 17
    /\ WindowStartIST = TodayIST + 7 * DAY + 10 * HOUR

\* the text matches no weekday name, "next week" or "this week"
NoMatch(text) ==
    text.kind # "str"
    \/ (~NamesADay(text) /\ ~Contains(lower(text), "next week")
        /\ ~Contains(lower(text), "this week"))

\* C12: the resolver returns a window for every hint value, text or not,
\* and the window of a hint that matches nothing is [now, now + 7 days).
C12_ResolverNeverFails ==
    pc = "resolved" =>
        /\ ~window.raised
        /\ NoMatch(Hint) =>
              /\ window.time_min = now
              /\ window.time_max = plus(now, 7 * DAY)

\* what a text mentions, read off the words as typed, in either letter case
MentionedDays(text) ==
    {d \in 0..6 : DayNames[d + 1] \in text.tokens}
    \cup (IF text.tokens \cap {"Thursday", "thurs"} # {} THEN {3} ELSE {})

MentionsNextWeek(text) == text.tokens \cap {"next week", "NEXT WEEK"} # {}

MentionsThisWeek(text) == text.tokens \cap {"this week", "This Week"} # {}

\* the window of the weekday rule: 10:00-17:00 IST of a mentioned weekday
IsDayWindow ==
    /\ WindowStartIST % DAY = 10 * HOUR
    /\ WindowEndIST = WindowStartIST + 7 * HOUR
    /\ (WindowStartIST \div DAY) % 7 \in MentionedDays(Hint)

\* the window of the "next week" rule
IsNextWeekWindow ==
    /\ WindowStartIST = ThisMondayIST + WEEK + 10 * HOUR
    /\ WindowEndIST = ThisMondayIST + WEEK + 4 * DAY + 17 * HOUR

\* the window of the "this week" rule as the code computes it
IsThisWeekWindow ==
    IF weekday(NowIST) = 4 /\ hour_of(NowIST) >= 17
    THEN /\ WindowStartIST = TodayIST + 3 * DAY + 10 * HOUR
         /\ WindowEndIST = TodayIST + 7 * DAY + 17 * HOUR
    ELSE /\ WindowStartIST = IF hour_of(NowIST) >= 17
                             THEN TodayIST + DAY + 10 * HOUR
                             ELSE (NowIST.wall \div HOUR) * HOUR
         /\ WindowEndIST = TodayIST + 17 * HOUR

IsDefaultWindow ==
    window.time_min = now /\ window.time_max = plus(now, 7 * DAY)

\* C13: matching ignores letter case and goes by priority: a weekday name
\* before "next week", "next week" before "this week", "this week" before
\* the default.
C13_HintPriority ==
    (pc = "resolved" /\ Hint.kind = "str") =>
        /\ ~window.raised
        /\ IF MentionedDays(Hint) # {} THEN IsDayWindow
           ELSE IF MentionsNextWeek(Hint) THEN IsNextWeekWindow
           ELSE IF MentionsThisWeek(Hint) THEN IsThisWeekWindow
           ELSE IsDefaultWindow

\* a hint in capitals that holds both a weekday name and "next week"
C13_Witness ==
    /\ pc = "resolved"
    /\ Hint.tokens = {"Thursday", "NEXT WEEK"}
    /\ IsDayWindow /\ ~IsNextWeekWindow

----------------------------------------------------------------------------
(* Properties of the slot search and of schedule_meeting *)

\* the interval an event really covers, whichever shape it is given in
BusyStart(event) ==
    IF "StartTime" \in DOMAIN event THEN ApiInstant(event.StartTime) ELSE ItemStart(event)
BusyEnd(event) ==
    IF "EndTime" \in DOMAIN event THEN ApiInstant(event.EndTime) ELSE ItemEnd(event)

SlotStart == Instant(fromisoformat(selected.start_time))
SlotEnd == Instant(fromisoformat(selected.end_time))

\* the event lists the search was given: the requester's and each attendee's
FetchedLists ==
    {events.requester} \cup {events.attendees[a] : a \in DOMAIN events.attendees}

\* half-open overlap of [s, e) with an event
Overlaps(s, e, event) == s < BusyEnd(event) /\ e > BusyStart(event)

FreeForAll(s, e) ==
    \A evs \in FetchedLists : \A i \in 1..Len(evs) : ~Overlaps(s, e, evs[i])

\* C1: the slot schedule_meeting chooses overlaps no busy interval that
\* get_events returned for the organizer or for a participant.
C1_ChosenSlotIsFree ==
    (pc = "responded" /\ selected # None) => FreeForAll(SlotStart, SlotEnd)

\* the duration the search was asked for
RequestedDuration ==
    IF "duration_minutes" \in DOMAIN request
    THEN request.duration_minutes
    ELSE TextDuration(Get(request, "EmailContent", str({})))

\* C2: every slot the search produces starts on Monday-Friday at a local
\* (IST) time within [09:00, 17:00) and lasts the requested duration.
C2_SlotInBusinessHours ==
    (pc = "responded" /\ selected # None) =>
        LET start_ist == astimezone(fromisoformat(selected.start_time), "ist")
        IN  /\ weekday(start_ist) < 5
            /\ 9 <= hour_of(start_ist) /\ hour_of(start_ist) < 17
            /\ SlotEnd - SlotStart = RequestedDuration

Scheduled(resp) == "EventStart" \in DOMAIN resp /\ resp.EventStart # EmptyString

\* C4: when the calendar call fails for exactly one participant, that
\* participant has no busy intervals in the search, the intervals of the
\* others are applied to the chosen slot, and the request ends Scheduled
\* whenever the window has room for the meeting.
C4_FailedFetchIsUnconstrained ==
    (pc = "responded" /\ Cardinality(down) = 1 /\ ~window.raised) =>
        /\ \A u \in down :
              IF u = request.From THEN events.requester = <<>>
              ELSE events.attendees[u] = <<>>
        /\ selected # None => FreeForAll(SlotStart, SlotEnd)
        /\ (Instant(window.time_min) + RequestedDuration <= Instant(window.time_max)
            /\ \A u \in Users : calendar[u] = <<>>)
           => Scheduled(response)

\* C5: once the chosen slot is entered as busy for every participant, the
\* next run over the same window and duration does not choose it again.
C5_RoundTripSkipsChosenSlot ==
    (pc = "responded" /\ Len(history) = 1 /\ Scheduled(response)) =>
        response.EventStart # history[1].EventStart

\* the candidates the scan visits before it reaches start
RECURSIVE CandidatesBefore(_, _)
CandidatesBefore(current_time, start) ==
    IF Instant(current_time) >= start THEN {}
    ELSE {current_time} \cup CandidatesBefore(NextCandidate(current_time), start)

\* Scenario A: three participants, each busy 10:30-11:00 on the Thursday,
\* 30 minutes wanted in the window 09:00-17:00 IST of that Thursday
ScenarioA ==
    /\ Instant(window.time_min) = 3 * DAY + 9 * HOUR - IST_OFFSET
    /\ Instant(window.time_max) = 3 * DAY + 17 * HOUR - IST_OFFSET
    /\ request.duration_minutes = 30
    /\ \A evs \in FetchedLists :
          /\ Len(evs) = 1
          /\ BusyStart(evs[1]) = 3 * DAY + 10 * HOUR + 30 - IST_OFFSET
          /\ BusyEnd(evs[1]) = 3 * DAY + 11 * HOUR - IST_OFFSET

----------------------------------------------------------------------------
(* Properties of SchedulerAgent and of find_available_slots *)

\* the participants of the agent's request
AgentParticipants == Range(Emails(request.attendees)) \cup {request.from_email}

\* every participant's calendar is read from the backend and holds an entry
\* that covers 09:00-17:00 of every day of the primary window
FullyBooked ==
    \A u \in AgentParticipants :
        /\ u \in services /\ u \notin down
        /\ \E i \in 1..Len(calendar[u]) :
              /\ ItemStart(calendar[u][i]) <= (now.wall \div DAY) * DAY
              /\ ItemEnd(calendar[u][i]) >= now.wall + 8 * DAY

\* a slot of the list is free of every participant's calendar entries
SlotIsFree(slot) ==
    \A u \in AgentParticipants : \A i \in 1..Len(calendar[u]) :
        ~(fromisoformat(slot.start_time).wall < ItemEnd(calendar[u][i])
          /\ fromisoformat(slot.end_time).wall > ItemStart(calendar[u][i]))

\* C3: with every participant fully booked over the primary window the
\* decision after check_availability is "conflict" and the request ends
\* with status conflict and at most 3 suggestions; the schedule node is
\* entered only when a free slot was found.
C3_FullyBookedIsConflict ==
    /\ (pc \in {"schedule_event", "handle_conflict"} /\ FullyBooked)
          => (pc = "handle_conflict" /\ _check_availability_decision(data) = "conflict")
    /\ (pc = "done" /\ RequiredFields \subseteq DOMAIN request /\ FullyBooked)
          => (response.status = "conflict" /\ Len(response.suggested_times) <= 3)
    /\ pc = "schedule_event"
          => \E i \in 1..Len(data.available_slots) : SlotIsFree(data.available_slots[i])

FirstSlot(found) == IF found.slots = <<>> THEN None ELSE found.slots[1]

\* C7: two calls of the slot search with the same window, duration and busy
\* intervals return the same first slot.
C7_SameInputsSameFirstSlot ==
    (pc = "searched" /\ Len(history) = 1 /\ ~data.raised /\ ~history[1].raised)
        => FirstSlot(data) = FirstSlot(history[1])

\* a step from node a to node b follows the order of the workflow
InOrder(a, b) ==
    \/ a = "schedule" /\ b = "parse_request"
    \/ a = "parse_request" /\ b = "check_availability"
    \/ a = "check_availability" /\ b \in {"schedule_event", "handle_conflict"}
    \/ a \in {"schedule_event", "handle_conflict"} /\ b = "generate_response"
    \/ a = "generate_response" /\ b = "done"

\* the request ends in the error status
EndsInError == pc' = "done" /\ response'.status = "error"

FreeSlotFound ==
    /\ data # None /\ "available_slots" \in DOMAIN data
    /\ data.available_slots # <<>>
    /\ SlotIsFree(data.available_slots[1])

\* C15: once a free slot is found the request ends with status scheduled
\* and the chosen slot, also when the calendar fails to create the event;
\* that failure shows as a note in the result.
C15_ScheduledDespiteCreationFailure ==
    (pc = "done" /\ FreeSlotFound) =>
        /\ response.status = "scheduled"
        /\ Len(response.scheduled_events) = 1
        /\ response.scheduled_events[1].start_time = data.available_slots[1].start_time
        /\ (request.from_email \notin services \/ request.from_email \in down)
              => response.errors # <<>>

\* days the widened window of the conflict search is said to span
WIDENED_DAYS == 14

\* the first slots, at most 3, of the search over the window that starts one
\* day after the primary one and spans 14 days
WidenedSuggestions ==
    LET start == plus(utcnow(now), DAY)
        found == find_available_slots(Emails(_parse_request(request).attendees),
                                      request.duration_minutes,
                                      start, plus(start, WIDENED_DAYS * DAY),
                                      calendar, services, now)
    IN  SubSeq(found.slots, 1, IF Len(found.slots) < MAX_SUGGESTIONS
                               THEN Len(found.slots) ELSE MAX_SUGGESTIONS)

\* C16: when the primary window holds no free slot the search is run again
\* over the window that starts a day later and spans 14 days, and the
\* result carries the first slots of that search, 3 at most.
C16_ConflictSuggestions ==
    (pc = "done" /\ RequiredFields \subseteq DOMAIN request /\ FullyBooked) =>
        /\ Len(response.suggested_times) <= MAX_SUGGESTIONS
        /\ response.suggested_times = WidenedSuggestions

----------------------------------------------------------------------------
(* Properties of the response schedule_meeting assembles *)

\* the participants as the request lists them: the attendees in their
\* order, then the sender unless listed
ListedParticipants ==
    LET listed == [i \in 1..Len(request.Attendees) |-> request.Attendees[i].email]
    IN  IF request.From \in Range(listed) THEN listed ELSE Append(listed, request.From)

\* the events a participant has in the coming 7 days, as get_events gives
\* them for a participant with a session
ExistingEvents(email) ==
    IF email \in services
    THEN get_events(calendar, email, LocalNow(now), plus(LocalNow(now), 7 * DAY))
    ELSE <<>>

IsNewMeeting(ev) ==
    /\ ev.StartTime = response.EventStart
    /\ ev.EndTime = response.EventEnd
    /\ ev.Summary = request.Subject

\* every entry lists the participant's existing events, then the new meeting
EntryListsOk ==
    \A i \in 1..Len(response.Attendees) :
        LET evs == response.Attendees[i].events
        IN  /\ Len(evs) >= 1
            /\ IsNewMeeting(evs[Len(evs)])
            /\ SubSeq(evs, 1, Len(evs) - 1) = ExistingEvents(response.Attendees[i].email)

\* the top level carries the chosen slot and the duration
TopLevelOk ==
    /\ ApiInstant(response.EventStart) = SlotStart
    /\ ApiInstant(response.EventEnd) = SlotEnd
    /\ response.Duration_mins = StrOfInt(RequestedDuration)

EntryEmails == [i \in 1..Len(response.Attendees) |-> response.Attendees[i].email]

\* C17 as stated: in a Scheduled response every participant has exactly one
\* entry, whose events are the existing ones followed by the chosen slot,
\* and the top level carries the slot's start and end and the duration.
C17_OneEntryPerParticipant ==
    (pc = "responded" /\ Scheduled(response)) =>
        /\ Range(EntryEmails) = Range(ListedParticipants)
        /\ \A u \in Range(ListedParticipants) :
              Cardinality({i \in 1..Len(EntryEmails) : EntryEmails[i] = u}) = 1
        /\ EntryListsOk
        /\ TopLevelOk

\* in a Scheduled response there is one entry for each element of the
\* participant list, in its order (so exactly one per participant unless
\* the request lists an attendee twice); each entry's events are the
\* existing ones followed by the chosen slot, and the top level carries the
\* slot's start and end and the duration.
C17_OneEntryPerListedAttendee ==
    (pc = "responded" /\ Scheduled(response)) =>
        /\ EntryEmails = ListedParticipants
        /\ EntryListsOk
        /\ TopLevelOk

\* a Scheduled response in which a participant has earlier events
C17_Witness ==
    /\ pc = "responded" /\ Scheduled(response)
    /\ \E i \in 1..Len(response.Attendees) : Len(response.Attendees[i].events) >= 2

\* the response adds something to the request, past the schedule fields,
\* that is not empty: suggested slots, a message, metadata
CarriesDetail ==
    \E k \in DOMAIN response
             \ (DOMAIN request \cup {"Attendees", "EventStart", "EventEnd", "Duration_mins"}) :
        response[k] # <<>>

\* C18: when no slot is found the response has empty EventStart and
\* EventEnd, no participant's events hold the new meeting, and suggested
\* slots are attached.
C18_ConflictResponse ==
    (pc = "responded" /\ ~window.raised /\ selected = None) =>
        /\ response.EventStart = EmptyString
        /\ response.EventEnd = EmptyString
        /\ \A i \in 1..Len(response.Attendees) :
              response.Attendees[i].events = ExistingEvents(response.Attendees[i].email)
        /\ CarriesDetail

\* C19: schedule_meeting returns a response for every request, and when it
\* cannot build a result the response is the request with empty EventStart
\* and EventEnd and an error message added.
C19_FailureIsAnnotated ==
    pc = "responded" =>
        /\ DOMAIN request \subseteq DOMAIN response
        /\ {"EventStart", "EventEnd"} \subseteq DOMAIN response
        /\ window.raised =>
              /\ response.EventStart = EmptyString
              /\ response.EventEnd = EmptyString
              /\ CarriesDetail

----------------------------------------------------------------------------
(* Properties of the session registry *)

\* C20: when two concurrent requests look up a participant who has no
\* session yet, get_service_for_user runs once for that participant and
\* both requests use the same session.
C20_SessionCreatedOnce ==
    /\ \A u \in Users : data.calls[u] <= 1
    /\ \A t1, t2 \in Threads :
          (pc[t1] = "done" /\ pc[t2] = "done" /\ request[t1] = request[t2]
           /\ request[t1] \notin down)
              => data.service[t1] = data.service[t2]

----------------------------------------------------------------------------
(* Properties of the duration *)

\* the duration the request states, or the one its text yields
StatedDuration ==
    IF "Duration_mins" \in DOMAIN request
    THEN request.Duration_mins
    ELSE TextDuration(Get(request, "EmailContent", str({})))

\* C21: the slot search runs with the duration the request states; only a
\* request that states none gets the duration of its text: 30 for
\* "30 minutes", 60 for "1 hour" or "60 minutes", 30 otherwise.
C21_ExplicitDurationFirst ==
    (pc = "responded" /\ selected # None) => SlotEnd - SlotStart = StatedDuration

----------------------------------------------------------------------------
(* Properties of the participant list *)

\* how often an identity occurs in a list
Occurrences(list, u) == Cardinality({i \in 1..Len(list) : list[i] = u})

\* C22: after the attendee derivation the participant list names no
\* identity twice, names the organizer exactly once, and is not empty.
C22_ParticipantsAreASet ==
    pc = "responded" =>
        /\ \A u \in Users : Occurrences(AttendeesOf(request), u) <= 1
        /\ Occurrences(AttendeesOf(request), request.From) = 1
        /\ AttendeesOf(request) # <<>>

----------------------------------------------------------------------------
(* Properties of LLMService *)

\* the completion service failed: no answer, a status other than 200, a
\* body without the choices, or a content that is not JSON
CompletionFailed ==
    \/ request.kind # "ok"
    \/ request.content.json = "invalid"

IsDefaultExtraction(value) ==
    /\ value.type = "dict"
    /\ DOMAIN value.fields = {"participants", "time_constraints", "meeting_duration"}
    /\ value.fields.meeting_duration = 30
    /\ value.fields.participants = <<>>
    /\ value.fields.time_constraints = EmptyString

\* C23: when the completion service fails, parse_email returns the default
\* extraction (no participants, no time constraints, meeting_duration 30)
\* and suggest_meeting_time returns the first available slot.
C23_CompletionFailureIsSoft ==
    CompletionFailed =>
        /\ pc = "parsed" => IsDefaultExtraction(response)
        /\ (pc = "suggested" /\ data # <<>>) => response.selected_slot = data[1]

\* C27: the slot suggest_meeting_time returns is one of the first five
\* available slots, whatever index the completion service answers with.
C27_SuggestedSlotWasOffered ==
    (pc = "suggested" /\ data # <<>>) =>
        response.selected_slot \in Range(limited_slots(data))

----------------------------------------------------------------------------
(* Properties of the answer of your_meeting_assistant *)

\* nobody named in the payload has a calendar entry
EveryoneFree == \A u \in Users : calendar[u] = <<>>

\* C24: for a request that can be scheduled the answer echoes Request_id,
\* From, To, Subject and Body, its EventStart and EventEnd are those of the
\* chosen slot and not empty, and MetaData carries the scheduling result.
C24_ScheduledAnswer ==
    (pc = "answered" /\ EveryoneFree) =>
        /\ \A k \in {"Request_id", "From", "To", "Subject", "Body"} \cap DOMAIN request :
              response[k] = request[k]
        /\ response.MetaData.status = "scheduled"
        /\ response.EventStart # EmptyString
        /\ response.EventEnd # EmptyString

----------------------------------------------------------------------------
(* Properties of the candidates of the slot search *)

\* 17:00 of the day a datetime lies on, as a wall-clock minute
BusinessClose(dt) == (dt.wall \div DAY) * DAY + 17 * HOUR

\* C25: no slot the search returns ends after 17:00 of the day it starts on
\* or after the end of the window, whatever the duration.
C25_SlotEndsBeforeClose ==
    (pc = "searched" /\ selected # None) =>
        /\ fromisoformat(selected.end_time).wall
              <= BusinessClose(fromisoformat(selected.start_time))
        /\ SlotEnd <= Instant(window.time_max)

----------------------------------------------------------------------------
(* Properties of the list find_available_slots returns *)

\* no calendar entry of an attendee overlaps the slot
FreeOfEntries(slot) ==
    \A u \in Range(request.attendees) : \A i \in 1..Len(calendar[u]) :
        ~(fromisoformat(slot.start_time).wall < ItemEnd(calendar[u][i])
          /\ fromisoformat(slot.end_time).wall > ItemStart(calendar[u][i]))

\* C26: every slot find_available_slots returns, the ones it returns when
\* the scan found none included, overlaps no busy interval of an attendee.
C26_ReturnedSlotsAreFree ==
    (pc = "searched" /\ ~data.raised) =>
        \A k \in 1..Len(data.slots) : FreeOfEntries(data.slots[k])

\* an attendee's calendar holds the all-day entry, so the scan finds no slot
SomeoneBlocked == \E u \in Range(request.attendees) : calendar[u] = AllDayBlock

\* the slots start at 10:00 on weekdays that lie within three consecutive days
AreDefaultSlots(slots) ==
    /\ \A k \in 1..Len(slots) :
          LET start == fromisoformat(slots[k].start_time)
          IN  /\ hour_of(start) = 10 /\ minute_of(start) = 0
              /\ weekday(start) < 5
              /\ fromisoformat(slots[k].end_time).wall = start.wall + request.duration_minutes
    /\ \A j, k \in 1..Len(slots) :
          fromisoformat(slots[k].start_time).wall - fromisoformat(slots[j].start_time).wall
              <= 2 * DAY

\* C28: find_available_slots returns between 1 and 10 slots whenever it
\* completes; when the scan finds no free candidate the slots are 10:00
\* slots on the weekdays among three consecutive days.
C28_BetweenOneAndTenSlots ==
    (pc = "searched" /\ ~data.raised) =>
        /\ 1 <= Len(data.slots) /\ Len(data.slots) <= MAX_SLOTS
        /\ SomeoneBlocked => AreDefaultSlots(data.slots)

\* a blocked attendee and a window on a Saturday: the slots are made up, and
\* the weekend days among the three are left out
C28_Witness ==
    /\ pc = "searched" /\ ~data.raised
    /\ SomeoneBlocked
    /\ weekday(window.time_min) = 5
    /\ Len(data.slots) = 1

----------------------------------------------------------------------------
(* Properties of the chosen slot and the clock *)

\* C29: the slot schedule_meeting chooses does not start before the time
\* at which the request is processed, whatever the hint and the clock.
C29_SlotNotInThePast ==
    (pc = "responded" /\ selected # None /\ history = <<>>) => SlotStart >= Instant(now)

----------------------------------------------------------------------------
(* Properties of the search loops *)

\* the loop went round once more
LoopContinues == pc' = pc /\ pc \in {"scheduler_loop", "manager_loop"}

\* C30: in both search loops the candidate time grows on every iteration,
\* and each loop ends: the function returns a slot, a list or none.
C30_LoopsTerminate ==
    /\ [][LoopContinues => OrderKey(data'.current) > OrderKey(data.current)]_vars
    /\ <>(pc = "returned")

\* a loop returned after it had moved on to a later day
C30_Witness ==
    /\ pc = "returned"
    /\ data.current.wall \div DAY > window.time_min.wall \div DAY

====
